---- MODULE Spec2Model ----
(***************************************************************************)
(* A model of react-custom-clock: the configuration merge (defaultFill,    *)
(* utils) over a heap of JavaScript objects, and the Clock /               *)
(* ClockInterface components (Clock.tsx) with their effects, the tick      *)
(* interval and the visibilitychange listener.                             *)
(*                                                                         *)
(* Angles are kept in units of 1/120 degree, so that every value the code  *)
(* computes (the 1/120 degree hour increment included) is an integer.      *)
(***************************************************************************)
EXTENDS Integers, Sequences, FiniteSets, TLC

(***************************************************************************)
(* Bounds of the model.                                                    *)
(***************************************************************************)
\* How many keys a generated user options object sets (SpecFill).
MaxEdits == 2
\* How many times the options are normalized against OPTIONS (SpecShare).
MaxMerges == 2
\* How many writes the callers make to objects they hold (SpecShare).
MaxWrites == 1
\* How many ticks the interval callbacks make in a behaviour (SpecClock).
MaxTicks == 2
\* How many seconds the wall clock advances in a behaviour (SpecClock).
MaxElapsed == 2
\* How many times a hand is rendered with a new angle (SpecHand).
MaxHandTicks == 2

(***************************************************************************)
(* JavaScript values.  A primitive is a tagged record; an object or an     *)
(* array lives in the heap and is referred to by its address.              *)
(***************************************************************************)
Num(n) == [t |-> "number", n |-> n]
Str(s) == [t |-> "string", s |-> s]
Bool(b) == [t |-> "boolean", b |-> b]
Null == [t |-> "null"]
Undefined == [t |-> "undefined"]
Ref(a) == [t |-> "ref", a |-> a]

\* A literal: a value written out as a tree (what an object literal in the
\* source denotes before it is evaluated into the heap).
Obj(f) == [t |-> "object", o |-> f]
Arr(f) == [t |-> "array", o |-> f]
NoFields == [k \in {} |-> Null]

SetField(f, k, v) == [x \in (DOMAIN f) \cup {k} |-> IF x = k THEN v ELSE f[x]]

\* Property order of the objects of the model (for-in visits the keys of an
\* object literal in the order they are written).
KeyOrder ==
  <<"size", "face", "show", "padding", "interface", "dynamic", "hourHand",
    "front", "background", "radius", "back", "extra", "0">>

KeysOf(f) == SelectSeq(KeyOrder, LAMBDA k : k \in DOMAIN f)

\* The default options: the sub-tree of OPTIONS the model keeps, with the
\* values of the source.
OptionsLit ==
  Obj([size |-> Num(400),
       face |-> Obj([show |-> Bool(TRUE), padding |-> Num(0)]),
       interface |->
         Obj([dynamic |-> Bool(TRUE),
              hourHand |->
                Obj([front |-> Obj([background |-> Str("black"),
                                    radius |-> Num(4)]),
                     back |-> Obj([background |-> Str("grey")])])])])

(***************************************************************************)
(* The heap: a sequence of cells, a cell being an object or an array with  *)
(* its properties.                                                         *)
(***************************************************************************)
RECURSIVE Alloc(_, _)
RECURSIVE AllocFields(_, _, _, _)
\* Evaluating a literal: allocates its objects, returns the heap and the value.
Alloc(h, lit) ==
  IF lit.t \in {"object", "array"}
  THEN LET a == Len(h) + 1
           h1 == Append(h, [kind |-> lit.t, f |-> NoFields])
       IN [h |-> AllocFields(h1, a, lit.o, KeysOf(lit.o)), v |-> Ref(a)]
  ELSE [h |-> h, v |-> lit]

AllocFields(h, a, o, ks) ==
  IF ks = <<>> THEN h
  ELSE LET c == Alloc(h, o[Head(ks)])
       IN AllocFields([c.h EXCEPT ![a].f = SetField(@, Head(ks), c.v)],
                      a, o, Tail(ks))

RECURSIVE Deref(_, _)
\* A value read back as a tree.
Deref(h, v) ==
  IF v.t = "ref"
  THEN [t |-> h[v.a].kind,
        o |-> [k \in DOMAIN h[v.a].f |-> Deref(h, h[v.a].f[k])]]
  ELSE v

RECURSIVE Reach(_, _)
\* The addresses of the objects reachable from a value.
Reach(h, v) ==
  IF v.t = "ref"
  THEN {v.a} \cup UNION {Reach(h, h[v.a].f[k]) : k \in DOMAIN h[v.a].f}
  ELSE {}

(***************************************************************************)
(* utils: isObject and defaultFill.                                        *)
(***************************************************************************)
\* A comparison that tells objects from the rest and no more.
typeofLoose(v) == IF v.t = "ref" THEN "object" ELSE "primitive"

typeof(v) ==
  CASE v.t = "ref" -> "object"
    [] v.t = "null" -> "object"
    [] OTHER -> v.t

isObject(h, value) ==
  /\ typeof(value) = "object"
  /\ value # Null
  /\ h[value.a].kind # "array"
  /\ h[value.a].kind = "object"

\* No copy: the value itself.
NoClone(h, v) == [h |-> h, v |-> v]

RECURSIVE structuredClone(_, _)
RECURSIVE CloneFields(_, _, _, _)
structuredClone(h, v) ==
  IF v.t = "ref"
  THEN LET a == Len(h) + 1
           h1 == Append(h, [kind |-> h[v.a].kind, f |-> NoFields])
       IN [h |-> CloneFields(h1, a, v.a, KeysOf(h[v.a].f)), v |-> Ref(a)]
  ELSE [h |-> h, v |-> v]

CloneFields(h, a, from, ks) ==
  IF ks = <<>> THEN h
  ELSE LET c == structuredClone(h, h[from].f[Head(ks)])
       IN CloneFields([c.h EXCEPT ![a].f = SetField(@, Head(ks), c.v)],
                      a, from, Tail(ks))

\* `key in obj`: a TypeError when obj is no object.
InThrows(obj) == obj.t # "ref"
In(h, key, obj) == key \in DOMAIN h[obj.a].f
Get(h, obj, key) == IF key \in DOMAIN h[obj.a].f THEN h[obj.a].f[key] ELSE Undefined
\* An assignment that leaves the key undefined.
StoreUndefined(h, obj, key, val) == [h EXCEPT ![obj.a].f = SetField(@, key, Undefined)]

Store(h, obj, key, val) == [h EXCEPT ![obj.a].f = SetField(@, key, val)]

RECURSIVE AssignAll(_, _, _, _)
AssignAll(h, target, source, ks) ==
  IF ks = <<>> THEN h
  ELSE AssignAll(Store(h, target, Head(ks), Get(h, source, Head(ks))),
                 target, source, Tail(ks))

\* A shallow merge, {...defaultObj, ...userObj}.
defaultFillShallow(h, defaultObj, userObj) ==
  LET c == structuredClone(h, defaultObj)
  IN IF isObject(c.h, defaultObj) /\ isObject(c.h, userObj)
     THEN [h |-> AssignAll(c.h, c.v, userObj, KeysOf(h[userObj.a].f)),
           v |-> c.v, warn |-> <<>>, threw |-> FALSE]
     ELSE [h |-> c.h, v |-> c.v, warn |-> <<>>, threw |-> FALSE]

RECURSIVE defaultFill(_, _, _)
RECURSIVE FillKeys(_, _, _, _, _, _)
\* The result: the heap after the call, the value returned, the warnings
\* logged (the value each console.warn call shows) and whether it threw.
defaultFill(h, defaultObj, userObj) ==
  LET c == structuredClone(h, defaultObj)
  IN IF isObject(c.h, defaultObj) /\ isObject(c.h, userObj)
     THEN FillKeys(c.h, defaultObj, userObj, c.v, KeysOf(h[defaultObj.a].f), <<>>)
     ELSE [h |-> c.h, v |-> c.v, warn |-> <<>>, threw |-> FALSE]

\* The for-in loop of defaultFill over the keys left, newObject being the clone.
FillKeys(h, defaultObj, userObj, newObject, ks, warn) ==
  IF ks = <<>>
  THEN [h |-> h, v |-> newObject, warn |-> warn, threw |-> FALSE]
  ELSE
    LET key == Head(ks) IN
    IF InThrows(userObj)
    THEN [h |-> h, v |-> Undefined, warn |-> warn, threw |-> TRUE]
    ELSE IF In(h, key, userObj) /\ Get(h, userObj, key) # Undefined
    THEN
      LET defaultVal == Get(h, defaultObj, key)
          userVal == Get(h, userObj, key)
      IN IF typeof(defaultVal) # typeof(userVal)
         THEN FillKeys(h, defaultObj, userObj, newObject, Tail(ks),
                       Append(warn, userVal))
         ELSE IF isObject(h, defaultVal)
         THEN LET r == defaultFill(h, defaultVal, userVal)
              IN IF r.threw
                 THEN [h |-> r.h, v |-> Undefined, warn |-> warn \o r.warn,
                       threw |-> TRUE]
                 ELSE FillKeys(Store(r.h, newObject, key, r.v), defaultObj,
                               userObj, newObject, Tail(ks), warn \o r.warn)
         ELSE FillKeys(Store(h, newObject, key, userVal), defaultObj,
                       userObj, newObject, Tail(ks), warn)
    ELSE FillKeys(h, defaultObj, userObj, newObject, Tail(ks), warn)

(***************************************************************************)
(* The user options the model feeds to the merge.                          *)
(***************************************************************************)
RECURSIVE At(_, _)
\* The value at a path of a tree.
At(lit, path) ==
  IF path = <<>> THEN lit
  ELSE IF lit.t # "object" THEN Undefined
  ELSE IF Head(path) \notin DOMAIN lit.o THEN Undefined
  ELSE At(lit.o[Head(path)], Tail(path))

RECURSIVE Put(_, _, _)
\* lit with the property at path set to val; the objects on the way are
\* created when absent, and nothing changes when the way is no object.
Put(lit, path, val) ==
  IF lit.t # "object" THEN lit
  ELSE LET k == Head(path) IN
       IF Len(path) = 1 THEN Obj(SetField(lit.o, k, val))
       ELSE LET child == IF k \in DOMAIN lit.o THEN lit.o[k] ELSE Obj(NoFields)
            IN IF child.t # "object" THEN lit
               ELSE Obj(SetField(lit.o, k, Put(child, Tail(path), val)))

RECURSIVE PathsOf(_)
\* Every path of a tree, inner nodes included.
PathsOf(lit) ==
  IF lit.t # "object" THEN {}
  ELSE UNION {{<<k>>} \cup {<<k>> \o p : p \in PathsOf(lit.o[k])} : k \in DOMAIN lit.o}

\* The keys a generated options object may set: those of the face and of the
\* hour hand, and one key OPTIONS does not have.
UserPaths ==
  {p \in PathsOf(OptionsLit) : p # <<"size">> /\ p # <<"interface", "dynamic">>}
    \cup {<<"extra">>}

UserVals ==
  {Undefined, Num(10), Str("blue"), Bool(FALSE), Null, Arr(NoFields),
   Obj(NoFields)}

RECURSIVE EditsUpTo(_)
EditsUpTo(n) ==
  IF n = 0 THEN {Obj(NoFields)}
  ELSE LET prev == EditsUpTo(n - 1)
       IN prev \cup {Put(u, p, v) : u \in prev, p \in UserPaths, v \in UserVals}

UserInputs == EditsUpTo(MaxEdits)

(***************************************************************************)
(* State.                                                                  *)
(***************************************************************************)
VARIABLES
  heap,        \* the objects of the program
  user,        \* the options objects the callers passed (values)
  results,     \* what defaultFill returned, one per call
  warnings,    \* what the last call logged
  threw,       \* whether the last call threw
  pc,          \* "idle", or "render" while an options object awaits its merge
  userModel,   \* history: each options object as its caller wrote it
  resultModel, \* history: each result as returned and as its holder wrote it
  writes       \* history: the number of writes made by the callers

fillVars ==
  <<heap, user, results, warnings, threw, pc, userModel, resultModel, writes>>

VARIABLES
  mounted,         \* whether the Clock (and its ClockInterface) is mounted
  time,            \* Clock's time prop (NoTime when absent)
  dynamic,         \* normalizedOptions.interface.dynamic of the last render
  hidden,          \* document.hidden
  now,             \* the wall clock, in seconds of the day
  date,            \* Clock's state
  degRotations,    \* ClockInterface's state, in 1/120 degree
  intervals,       \* the intervals armed (setInterval ids)
  intervalCleanup, \* the id the pending cleanup of ClockInterface clears, or 0
  listeners,       \* the visibilitychange listeners of the document
  listenerCleanup, \* the listener the pending cleanup of Clock removes, or 0
  lastOp,          \* history: the last step taken
  syncTime,        \* history: the Date the angles were last set from
  sinceSync,       \* history: the ticks applied since then
  dropped,         \* history: whether the last synchronisation discarded ticks
  ticks,           \* history: the ticks applied in all
  elapsed,         \* history: the seconds the wall clock advanced
  stoppedDeg,      \* history: the angles when the tick loop was stopped
  stoppedAt        \* history: elapsed when the tick loop was stopped

clockVars ==
  <<mounted, time, dynamic, hidden, now, date, degRotations, intervals,
    intervalCleanup, listeners, listenerCleanup, lastOp, syncTime, sinceSync, dropped, ticks, elapsed, stoppedDeg,
    stoppedAt>>

VARIABLES
  alignment,        \* clockHand.front.alignment of the hand rendered
  frontHeight,      \* clockHand.front.height
  frontBaseHeight,  \* clockHand.frontBase.height
  pivot,            \* clockInterface.pivot: show and size
  degrees,          \* the angles ClockInterface passes to its hands
  frontAlignmentTranslation, \* the memoized offset, in 1/4 px
  handTicks         \* history: the renders with a new angle

handVars ==
  <<alignment, frontHeight, frontBaseHeight, pivot, degrees,
    frontAlignmentTranslation, handTicks>>

vars == <<fillVars, clockVars, handVars>>

\* OPTIONS is evaluated once, when the module loads.
OPTIONS == Ref(1)
HeapInit == Alloc(<<>>, OptionsLit).h

InitMerge ==
  /\ heap = HeapInit
  /\ user = <<>>
  /\ results = <<>>
  /\ warnings = <<>>
  /\ threw = FALSE
  /\ pc = "idle"
  /\ userModel = <<>>
  /\ resultModel = <<>>
  /\ writes = 0

\* A caller builds an options object u of inputs and renders
\* <Clock options={u}/>.
NewOptions(inputs, limit) ==
  /\ pc = "idle"
  /\ Len(user) < limit
  /\ \E u \in inputs :
        /\ \E c \in {Alloc(heap, u)} :
              /\ heap' = c.h
              /\ user' = Append(user, c.v)
        /\ userModel' = Append(userModel, u)
  /\ pc' = "render"
  /\ UNCHANGED <<results, warnings, threw, resultModel, writes, clockVars, handVars>>

\* Clock's render: defaultFill(OPTIONS, options ?? {}).
Normalize ==
  /\ pc = "render"
  /\ \E r \in {defaultFill(heap, OPTIONS, user[Len(user)])} :
        /\ heap' = r.h
        /\ results' = Append(results, r.v)
        /\ resultModel' = Append(resultModel, Deref(r.h, r.v))
        /\ warnings' = r.warn
        /\ threw' = r.threw
  /\ pc' = "idle"
  /\ UNCHANGED <<user, userModel, writes, clockVars, handVars>>

\* A caller passes the result of the first merge as the options of a
\* second render: defaultFill(OPTIONS, defaultFill(OPTIONS, X)).
Remerge ==
  /\ pc = "idle"
  /\ Len(user) = 1
  /\ Len(results) = 1
  /\ ~threw
  /\ user' = Append(user, results[1])
  /\ userModel' = Append(userModel, Deref(heap, results[1]))
  /\ pc' = "render"
  /\ UNCHANGED <<heap, results, warnings, threw, resultModel, writes,
                 clockVars, handVars>>

RECURSIVE PathValid(_, _, _)
\* Whether the objects on the way to path exist from root on.
PathValid(h, root, path) ==
  IF root.t # "ref" THEN FALSE
  ELSE IF Len(path) = 1 THEN TRUE
  ELSE IF Head(path) \notin DOMAIN h[root.a].f THEN FALSE
  ELSE PathValid(h, h[root.a].f[Head(path)], Tail(path))

RECURSIVE WritePath(_, _, _, _)
\* root.k1.k2...kn = val
WritePath(h, root, path, val) ==
  IF Len(path) = 1 THEN Store(h, root, Head(path), val)
  ELSE WritePath(h, h[root.a].f[Head(path)], Tail(path), val)

WritePaths ==
  {<<"interface">>, <<"face", "padding">>,
   <<"interface", "hourHand", "front", "background">>}

WriteVals == {Str("red")}

\* The holder of a result writes to it.
WriteResult(i, path, val) ==
  /\ pc = "idle"
  /\ writes < MaxWrites
  /\ PathValid(heap, results[i], path)
  /\ heap' = WritePath(heap, results[i], path, val)
  /\ resultModel' = [resultModel EXCEPT ![i] = Put(@, path, val)]
  /\ writes' = writes + 1
  /\ UNCHANGED <<user, results, warnings, threw, pc, userModel, clockVars, handVars>>

\* The caller writes to its options object after the merge.
WriteUser(j, path, val) ==
  /\ pc = "idle"
  /\ writes < MaxWrites
  /\ PathValid(heap, user[j], path)
  /\ heap' = WritePath(heap, user[j], path, val)
  /\ userModel' = [userModel EXCEPT ![j] = Put(@, path, val)]
  /\ writes' = writes + 1
  /\ UNCHANGED <<user, results, warnings, threw, pc, resultModel, clockVars, handVars>>

\* The options of SpecShare: the examples of the documentation and one of
\* each kind of malformed input.
ShareInputs ==
  {Obj(NoFields),
   Put(Obj(NoFields), <<"interface", "hourHand", "front", "background">>, Str("blue")),
   Put(Obj(NoFields), <<"face", "padding">>, Str("10")),
   Put(Put(Obj(NoFields), <<"face">>, Null), <<"extra">>, Num(10))}


(***************************************************************************)
(* Clock.tsx: Dates, the angles, the effects of ClockInterface and Clock.  *)
(***************************************************************************)
\* A Date object: its identity and its local time of day in seconds.
MkDate(id, t) == [id |-> id, t |-> t]
NoTime == MkDate(0, 0)
\* The identity of a newly created object (a Date, an interval, a
\* listener): one that no live object has.
FreshId(used) == CHOOSE i \in 1..8 : i \notin used
\* new Date()
NewDate(wall, used) == MkDate(FreshId(used), wall)

getHours(d) == d.t \div 3600
getMinutes(d) == (d.t \div 60) % 60
getSeconds(d) == d.t % 60

\* The unit of the angles: 1/Scale degree.
Scale == 120
ZeroDeg == [hour |-> 0, minute |-> 0, second |-> 0]

\* Angles of whole units: no minutes in the hour angle, no seconds in the
\* minute angle.
ContinuousDegSnapped(d) ==
  [hour |-> ((getHours(d) % 12) * 360 * Scale) \div 12,
   minute |-> (getMinutes(d) * 360 * Scale) \div 60,
   second |-> (getSeconds(d) * 360 * Scale) \div 60]

\* initialHourDeg, initialMinuteDeg, initialSecondDeg
ContinuousDeg(d) ==
  [hour |-> ((getHours(d) % 12) * 360 * Scale) \div 12
              + (getMinutes(d) * 30 * Scale) \div 60,
   minute |-> (getMinutes(d) * 360 * Scale) \div 60
                + (getSeconds(d) * 6 * Scale) \div 60,
   second |-> (getSeconds(d) * 360 * Scale) \div 60]

\* An updater that keeps the angles below 360 degrees.
TickDegWrapped(prev) ==
  [hour |-> (prev.hour + Scale \div 120) % (360 * Scale),
   minute |-> (prev.minute + Scale \div 10) % (360 * Scale),
   second |-> (prev.second + 6 * Scale) % (360 * Scale)]

\* The updater of the interval callback.
TickDeg(prev) ==
  [hour |-> prev.hour + Scale \div 120,
   minute |-> prev.minute + Scale \div 10,
   second |-> prev.second + 6 * Scale]

\* The part of the state the renders and effects of one step work on.
Cur ==
  [date |-> date, deg |-> degRotations, intervals |-> intervals,
   intervalCleanup |-> intervalCleanup, listeners |-> listeners,
   listenerCleanup |-> listenerCleanup, syncTime |-> syncTime,
   sinceSync |-> sinceSync, dropped |-> dropped]

\* A cleanup that forgets the handle and clears nothing.
IntervalCleanupKept(cs) == [cs EXCEPT !.intervalCleanup = 0]

\* The cleanup ClockInterface's effect returned, if it returned one:
\* clearInterval(interval).
IntervalCleanup(cs) ==
  IF cs.intervalCleanup = 0 THEN cs
  ELSE [cs EXCEPT !.intervals = @ \ {cs.intervalCleanup},
                  !.intervalCleanup = 0]

\* The body of ClockInterface's effect, with the time prop d.
IntervalEffect(cs, d, dyn) ==
  IF ~dyn THEN [cs EXCEPT !.intervalCleanup = 0]
  ELSE LET interval == FreshId(cs.intervals)
       IN [cs EXCEPT !.deg = ContinuousDeg(d),
                     !.intervals = @ \cup {interval},
                     !.intervalCleanup = interval,
                     !.syncTime = d,
                     !.dropped = cs.sinceSync > 0,
                     !.sinceSync = 0]

\* A commit that runs the effect again without the cleanup of the last one.
InterfaceCommitNoCleanup(cs, changed, d, dyn) ==
  IF changed THEN IntervalEffect(cs, d, dyn) ELSE cs

\* A commit of ClockInterface: when [time, dynamic] changed, the cleanup of
\* the last effect and then the effect.
InterfaceCommit(cs, changed, d, dyn) ==
  IF changed THEN IntervalEffect(IntervalCleanup(cs), d, dyn) ELSE cs

\* A cleanup that forgets the handler and removes nothing.
ListenerCleanupKept(cs) == [cs EXCEPT !.listenerCleanup = 0]

\* The cleanup Clock's effect returned, if it returned one:
\* removeEventListener.
ListenerCleanup(cs) ==
  IF cs.listenerCleanup = 0 THEN cs
  ELSE [cs EXCEPT !.listeners = @ \ {cs.listenerCleanup},
                  !.listenerCleanup = 0]

\* The body of Clock's effect, with the time prop t.
ClockEffect(cs, t, wall) ==
  LET d == IF t # NoTime THEN t ELSE NewDate(wall, {t.id, cs.date.id})
      set == [cs EXCEPT !.date = d]
  IN IF t # NoTime THEN [set EXCEPT !.listenerCleanup = 0]
     ELSE LET handler == FreshId(cs.listeners)
          IN [set EXCEPT !.listeners = @ \cup {handler},
                         !.listenerCleanup = handler]

\* A handler that does not look at document.hidden.
HandleVisibilityChangeAlways(cs, docHidden, t, wall) ==
  [cs EXCEPT !.date = NewDate(wall, {t.id, cs.date.id})]

\* handleVisibilityChange
HandleVisibilityChange(cs, docHidden, t, wall) ==
  IF docHidden THEN cs
  ELSE [cs EXCEPT !.date = NewDate(wall, {t.id, cs.date.id})]

\* What the first render of Clock and its effects make of the props.
MountClock(cs, t, dyn, wall) ==
  LET d0 == IF t # NoTime THEN t ELSE NewDate(wall, {t.id})
      s0 == [cs EXCEPT !.date = d0, !.deg = ZeroDeg, !.sinceSync = 0]
      s1 == IntervalEffect(s0, d0, dyn)
      s2 == ClockEffect(s1, t, wall)
  IN InterfaceCommit(s2, s2.date # s1.date, s2.date, dyn)

\* A render of Clock with new props, its effects, and the render the
\* setDate of the effect causes.
UpdateClock(cs, oldTime, t, oldDyn, dyn, wall) ==
  LET s1 == InterfaceCommit(cs, dyn # oldDyn, cs.date, dyn)
      s2 == IF t # oldTime THEN ClockEffect(ListenerCleanup(s1), t, wall)
            ELSE s1
  IN InterfaceCommit(s2, s2.date # s1.date, s2.date, dyn)

UnmountClock(cs) == ListenerCleanup(IntervalCleanup(cs))

\* interface.dynamic of defaultFill(OPTIONS, options).
DynamicOf(h, options) ==
  LET c == Alloc(h, options)
      r == defaultFill(c.h, OPTIONS, c.v)
  IN At(Deref(r.h, r.v), <<"interface", "dynamic">>).b

\* The options of SpecClock.
ClockInputs ==
  {Obj(NoFields),
   Put(Obj(NoFields), <<"interface", "dynamic">>, Bool(FALSE)),
   Put(Obj(NoFields), <<"interface", "dynamic">>, Str("false"))}

\* The start of the wall clock: 03:15:30.
StartTimes == {11730}
\* The times a parent supplies: 05:00:00, 23:59:59.
TimeProps == {18000, 86399}

\* interface.dynamic for each options object of SpecClock.  No step of
\* SpecClock writes to an object, so the merge is evaluated on the heap as
\* it is after the module is loaded.
Dynamic == [o \in ClockInputs |-> DynamicOf(HeapInit, o)]

Stopped == ~mounted \/ ~dynamic

InitClock(starts) ==
  /\ mounted = FALSE
  /\ time = NoTime
  /\ dynamic = TRUE
  /\ hidden = FALSE
  /\ now \in starts
  /\ date = NoTime
  /\ degRotations = ZeroDeg
  /\ intervals = {}
  /\ intervalCleanup = 0
  /\ listeners = {}
  /\ listenerCleanup = 0
  /\ lastOp = "init"
  /\ syncTime = NoTime
  /\ sinceSync = 0
  /\ dropped = FALSE
  /\ ticks = 0
  /\ elapsed = 0
  /\ stoppedDeg = ZeroDeg
  /\ stoppedAt = 0

\* The state after the renders and effects of one step.
Commit(cs) ==
  /\ date' = cs.date
  /\ degRotations' = cs.deg
  /\ intervals' = cs.intervals
  /\ intervalCleanup' = cs.intervalCleanup
  /\ listeners' = cs.listeners
  /\ listenerCleanup' = cs.listenerCleanup
  /\ syncTime' = cs.syncTime
  /\ sinceSync' = cs.sinceSync
  /\ dropped' = cs.dropped

\* The history of the stops of the tick loop: reset says the step set the
\* angles anew.
StopHistory(reset) ==
  /\ stoppedDeg' = IF ~Stopped' THEN ZeroDeg
                   ELSE IF reset \/ ~Stopped THEN degRotations'
                   ELSE stoppedDeg
  /\ stoppedAt' = IF ~Stopped' THEN 0
                  ELSE IF reset \/ ~Stopped THEN elapsed'
                  ELSE stoppedAt

\* The props a parent may pass for time: none, the same Date again, a new Date.
TimeChoices ==
  {NoTime, time} \cup {MkDate(FreshId({time.id, date.id}), t) : t \in TimeProps}

\* <Clock options={options} time={t}/> is mounted.
Mount(options, t) ==
  /\ ~mounted
  /\ mounted' = TRUE
  /\ time' = t
  /\ dynamic' = Dynamic[options]
  /\ \E cs \in {MountClock(Cur, t, Dynamic[options], now)} : Commit(cs)
  /\ lastOp' = "mount"
  /\ UNCHANGED <<hidden, now, ticks, elapsed, fillVars, handVars>>
  /\ StopHistory(TRUE)

\* The parent renders the mounted Clock again, with the same or other props.
Render(options, t) ==
  /\ mounted
  /\ time' = t
  /\ dynamic' = Dynamic[options]
  /\ \E cs \in {UpdateClock(Cur, time, t, dynamic, Dynamic[options], now)} :
       Commit(cs)
  /\ lastOp' = IF ~dynamic /\ dynamic' THEN "restart" ELSE "render"
  /\ UNCHANGED <<mounted, hidden, now, ticks, elapsed, fillVars, handVars>>
  /\ StopHistory(FALSE)

Unmount ==
  /\ mounted
  /\ mounted' = FALSE
  /\ \E cs \in {UnmountClock(Cur)} : Commit(cs)
  /\ lastOp' = "unmount"
  /\ UNCHANGED <<time, dynamic, hidden, now, ticks, elapsed, fillVars, handVars>>
  /\ StopHistory(FALSE)

\* The callback of an armed interval runs; the state of an unmounted
\* component is not updated.
Tick(id) ==
  /\ id \in intervals
  /\ ticks < MaxTicks
  /\ degRotations' = IF mounted THEN TickDeg(degRotations) ELSE degRotations
  /\ sinceSync' = sinceSync + 1
  /\ ticks' = ticks + 1
  /\ lastOp' = "tick"
  /\ UNCHANGED <<mounted, time, dynamic, hidden, now, date, intervals,
                 intervalCleanup, listeners, listenerCleanup, syncTime,
                 dropped, elapsed, fillVars, handVars>>
  /\ StopHistory(FALSE)

\* The document is hidden or shown: visibilitychange is dispatched to the
\* listeners, and the new date is rendered.
VisibilityChange ==
  /\ hidden' = ~hidden
  /\ \E s1 \in {IF mounted /\ listeners # {}
                  THEN HandleVisibilityChange(Cur, ~hidden, time, now)
                  ELSE Cur} :
       \E cs \in {InterfaceCommit(s1, s1.date # date, s1.date, dynamic)} :
         Commit(cs)
  /\ lastOp' = IF hidden' THEN "hidden" ELSE "visible"
  /\ UNCHANGED <<mounted, time, dynamic, now, ticks, elapsed, fillVars, handVars>>
  /\ StopHistory(FALSE)

\* A second passes.
Advance ==
  /\ elapsed < MaxElapsed
  /\ now' = (now + 1) % 86400
  /\ elapsed' = elapsed + 1
  /\ lastOp' = "advance"
  /\ UNCHANGED <<mounted, time, dynamic, hidden, date, degRotations,
                 intervals, intervalCleanup, listeners, listenerCleanup,
                 syncTime, sinceSync, dropped, ticks, fillVars, handVars>>
  /\ StopHistory(FALSE)

NextClock ==
  \/ \E o \in ClockInputs, t \in {NoTime} \cup {MkDate(1, x) : x \in TimeProps} :
       Mount(o, t)
  \/ \E o \in ClockInputs, t \in TimeChoices : Render(o, t)
  \/ Unmount
  \/ \E id \in intervals : Tick(id)
  \/ VisibilityChange
  \/ Advance

(***************************************************************************)
(* Clock.tsx: ClockHand and the offset of the front part of a hand.        *)
(***************************************************************************)
\* The unit of the offsets: 1/Quarter px.
Quarter == 4

\* pivotSize of ClockInterface
PivotSizeOf(p) == IF p.show THEN p.size ELSE 0

\* An offset that leaves the pivot out.
TranslationNoPivot(a, fh, fbh, pivotSize) ==
  IF a = "PIVOT" THEN fh * Quarter - fbh * Quarter
  ELSE IF a = "CENTER" THEN (fh * Quarter - fbh * Quarter) \div 2
  ELSE 0

\* The function useMemo holds for frontAlignmentTranslation.
Translation(a, fh, fbh, pivotSize) ==
  IF a = "PIVOT" THEN fh * Quarter - fbh * Quarter
  ELSE IF a = "CENTER"
  THEN (fh * Quarter + (pivotSize * Quarter) \div 2 - fbh * Quarter) \div 2
  ELSE 0

\* useMemo: the value is computed again when a dependency changed.
UseMemo(old, oldDeps, deps) ==
  IF deps = oldDeps THEN old
  ELSE Translation(deps[1], deps[2], deps[3], deps[4])

HandDeps == <<alignment, frontHeight, frontBaseHeight, PivotSizeOf(pivot)>>

\* The geometry a caller may configure.
Alignments == {"PIVOT", "TICK", "CENTER"}
FrontHeights == {80, 121}
FrontBaseHeights == {120, 80}
Pivots == [show : BOOLEAN, size : {20, 7}]

\* The first render of a hand.
InitHand(as, fhs, fbhs, ps) ==
  /\ alignment \in as
  /\ frontHeight \in fhs
  /\ frontBaseHeight \in fbhs
  /\ pivot \in ps
  /\ degrees = ZeroDeg
  /\ frontAlignmentTranslation
       = Translation(alignment, frontHeight, frontBaseHeight, PivotSizeOf(pivot))
  /\ handTicks = 0

\* The hand of the default options, for the behaviours that do not look at it.
InitHandDefault ==
  InitHand({"CENTER"}, {80}, {120}, {[show |-> TRUE, size |-> 20]})

\* The hand is rendered with the angle of the next tick.
HandTick ==
  /\ handTicks < MaxHandTicks
  /\ degrees' = TickDeg(degrees)
  /\ handTicks' = handTicks + 1
  /\ frontAlignmentTranslation'
       = UseMemo(frontAlignmentTranslation, HandDeps, HandDeps)
  /\ UNCHANGED <<alignment, frontHeight, frontBaseHeight, pivot,
                 fillVars, clockVars>>

\* The hand is rendered with another geometry.
HandRender(a, fh, fbh, p) ==
  /\ alignment' = a
  /\ frontHeight' = fh
  /\ frontBaseHeight' = fbh
  /\ pivot' = p
  /\ frontAlignmentTranslation'
       = UseMemo(frontAlignmentTranslation, HandDeps, HandDeps')
  /\ UNCHANGED <<degrees, handTicks, fillVars, clockVars>>

NextHand ==
  \/ HandTick
  \/ \E a \in Alignments, fh \in FrontHeights, fbh \in FrontBaseHeights,
        p \in Pivots : HandRender(a, fh, fbh, p)

InitFill == InitMerge /\ InitClock({0}) /\ InitHandDefault

InitClockSpec == InitMerge /\ InitClock(StartTimes) /\ InitHandDefault

InitHandSpec == InitMerge /\ InitClock({0}) /\ InitHandDefault

NextFill ==
  \/ NewOptions(UserInputs, 1)
  \/ Normalize

NextRemerge ==
  \/ NewOptions(UserInputs, 1)
  \/ Normalize
  \/ Remerge

NextShare ==
  \/ NewOptions(ShareInputs, MaxMerges)
  \/ Normalize
  \/ \E i \in DOMAIN results, p \in WritePaths, v \in WriteVals : WriteResult(i, p, v)
  \/ \E j \in DOMAIN user, p \in WritePaths, v \in WriteVals : WriteUser(j, p, v)

\* One merge of each generated options object.
SpecFill == InitFill /\ [][NextFill]_vars

\* One merge of each generated options object, and the merge of its result.
SpecRemerge == InitFill /\ [][NextRemerge]_vars

\* Several merges against the shared OPTIONS, the callers writing to what they hold.
SpecShare == InitFill /\ [][NextShare]_vars

\* A Clock mounted, rendered, ticking, hidden and shown, unmounted.
SpecClock == InitClockSpec /\ [][NextClock]_vars

\* A ClockHand rendered with every geometry and with the angles of the ticks.
SpecHand == InitHandSpec /\ [][NextHand]_vars

(***************************************************************************)
(* The claims about the merge.                                             *)
(***************************************************************************)
RECURSIVE LeafPaths(_)
LeafPaths(lit) ==
  UNION {IF lit.o[k].t = "object"
         THEN {<<k>> \o p : p \in LeafPaths(lit.o[k])}
         ELSE {<<k>>} : k \in DOMAIN lit.o}

Merged(i) == Deref(heap, results[i])
Calls == IF pc = "idle" THEN DOMAIN results ELSE {}

RECURSIVE KeyRule(_, _, _)
\* The decision of the claim for each key of d, at every depth.
KeyRule(d, u, out) ==
  /\ out.t = "object"
  /\ \A k \in DOMAIN d.o :
       /\ k \in DOMAIN out.o
       /\ IF k \notin DOMAIN u.o THEN out.o[k] = d.o[k]
          ELSE IF u.o[k] = Undefined THEN out.o[k] = d.o[k]
          ELSE IF d.o[k].t = "object" /\ u.o[k].t = "object"
          THEN KeyRule(d.o[k], u.o[k], out.o[k])
          ELSE IF d.o[k].t = u.o[k].t THEN out.o[k] = u.o[k]
          ELSE TRUE

BluePath == <<"interface", "hourHand", "front", "background">>

\* C1: after a merge every key of the default is decided by the rule (absent
\* or undefined: the default; two records: their merge; two scalars of one
\* type: the user's value), at every depth; and when the user overrides one
\* leaf alone, the output is the default tree with that one leaf replaced.
C1_KeyRule ==
  \A i \in Calls :
    /\ KeyRule(OptionsLit, userModel[i], Merged(i))
    /\ \A p \in LeafPaths(OptionsLit), v \in UserVals :
         (v.t = At(OptionsLit, p).t /\ userModel[i] = Put(Obj(NoFields), p, v))
           => Merged(i) = Put(OptionsLit, p, v)

C1_Witness ==
  /\ Calls # {}
  /\ userModel[1] = Put(Obj(NoFields), BluePath, Str("blue"))
  /\ At(Merged(1), BluePath) = Str("blue")
  /\ At(Merged(1), <<"interface", "hourHand", "front", "radius">>) = Num(4)
  /\ At(Merged(1), <<"interface", "hourHand", "back">>)
       = At(OptionsLit, <<"interface", "hourHand", "back">>)

RECURSIVE Mismatches(_, _)
\* The paths of the keys whose user value is present, not undefined and of
\* another type than the default's, in the nodes both trees have.
Mismatches(d, u) ==
  IF d.t # "object" \/ u.t # "object" THEN {}
  ELSE UNION {IF k \notin DOMAIN u.o THEN {}
              ELSE IF u.o[k] = Undefined THEN {}
              ELSE IF u.o[k].t # d.o[k].t THEN {<<k>>}
              ELSE {<<k>> \o p : p \in Mismatches(d.o[k], u.o[k])}
              : k \in DOMAIN d.o}

\* C2: a merge never throws, keeps the default at every key whose user value
\* has another type, logs exactly one warning for each such key, and decides
\* the other keys as usual.
C2_OneWarningPerMismatch ==
  \A i \in Calls :
    /\ ~threw
    /\ \A p \in Mismatches(OptionsLit, userModel[i]) :
         At(Merged(i), p) = At(OptionsLit, p)
    /\ Len(warnings) = Cardinality(Mismatches(OptionsLit, userModel[i]))
    /\ KeyRule(OptionsLit, userModel[i], Merged(i))

RECURSIVE SameShape(_, _)
SameShape(d, out) ==
  /\ out.t = d.t
  /\ d.t = "object" =>
       /\ DOMAIN out.o = DOMAIN d.o
       /\ \A k \in DOMAIN d.o :
            /\ SameShape(d.o[k], out.o[k])
            /\ k = "show" => out.o[k].t = "boolean"

\* C3: whatever the user passed, the output has exactly the keys of the
\* default at every path, each scalar of the default's type, each node a
\* node, every show a boolean.
C3_ShapeOfDefault ==
  \A i \in Calls : ~threw /\ SameShape(OptionsLit, Merged(i))

C3_Witness ==
  /\ Calls # {}
  /\ userModel[1] = Put(Put(Obj(NoFields), <<"extra">>, Num(10)),
                        <<"face", "show">>, Str("blue"))
  /\ Merged(1) = OptionsLit

Disjoint(A, B) == A \cap B = {}

\* C4: OPTIONS keeps its initial value, every options object is as its
\* caller wrote it, every result is as it was returned and as its holder
\* wrote it, and no result shares an object with OPTIONS, with an options
\* object or with another result.
C4_NoSharing ==
  /\ Deref(heap, OPTIONS) = OptionsLit
  /\ \A j \in DOMAIN user : pc = "idle" => Deref(heap, user[j]) = userModel[j]
  /\ \A i \in DOMAIN results :
       /\ Deref(heap, results[i]) = resultModel[i]
       /\ Disjoint(Reach(heap, results[i]), Reach(heap, OPTIONS))
       /\ \A j \in DOMAIN user :
            Disjoint(Reach(heap, results[i]), Reach(heap, user[j]))
       /\ \A k \in DOMAIN results :
            k # i => Disjoint(Reach(heap, results[i]), Reach(heap, results[k]))

C4_Witness ==
  /\ Len(results) = 2
  /\ writes = 1
  /\ resultModel[1] # resultModel[2]
  /\ At(resultModel[1], BluePath) = Str("red")
  /\ At(resultModel[2], BluePath) = Str("blue")

\* Whether merging the output of defaultFill(d, x) against d again returns
\* an equal tree.
MergedTwiceEqual(h, d, x) ==
  LET r1 == defaultFill(h, d, x)
      r2 == defaultFill(r1.h, d, r1.v)
  IN /\ ~r1.threw
     /\ ~r2.threw
     /\ Deref(r2.h, r2.v) = Deref(r1.h, r1.v)

\* C12: the merge of the result of a merge against OPTIONS equals that
\* result; and so it is with the caller's own object as the default tree
\* (trees with null, array, undefined and scalar nodes) and OPTIONS or the
\* object itself as the input.
C12_Idempotent ==
  /\ (pc = "idle" /\ Len(results) = 2) => (~threw /\ Merged(2) = Merged(1))
  /\ (pc = "idle" /\ Len(user) = 1)
       => /\ MergedTwiceEqual(heap, user[1], OPTIONS)
          /\ MergedTwiceEqual(heap, user[1], user[1])

C12_Witness ==
  /\ pc = "idle"
  /\ Len(results) = 2
  /\ userModel[1] = Put(Put(Obj(NoFields), BluePath, Str("blue")),
                        <<"face", "padding">>, Str("blue"))
  /\ userModel[2] = Merged(1)
  /\ Merged(2) = Merged(1)
  /\ At(Merged(2), BluePath) = Str("blue")
  /\ At(Merged(2), <<"face", "padding">>) = Num(0)

(***************************************************************************)
(* The claims about the clock.                                             *)
(***************************************************************************)
\* C5: while the component is unmounted or dynamic is off, no interval is
\* armed and the three angles are the ones the component had when it
\* stopped (or was mounted stopped), whatever time has passed since.
C5_StoppedAnglesFrozen ==
  Stopped => /\ intervals = {}
             /\ intervalCleanup = 0
             /\ degRotations = stoppedDeg

C5_Witness ==
  /\ mounted
  /\ ~dynamic
  /\ ticks >= 1
  /\ degRotations # ZeroDeg
  /\ stoppedAt = 0
  /\ elapsed >= MaxElapsed
  /\ degRotations = stoppedDeg

\* C6: at most one interval is armed at any time, it is the one the last
\* effect armed, and it is armed only while the component is mounted with
\* dynamic on.
C6_OneInterval ==
  /\ Cardinality(intervals) <= 1
  /\ intervals # {} => /\ mounted
                       /\ dynamic
                       /\ intervals = {intervalCleanup}

C6_Witness ==
  /\ lastOp = "visible"
  /\ dropped
  /\ ticks >= 1
  /\ Cardinality(intervals) = 1
  /\ sinceSync = 0

\* C7: right after a mount or a change of dynamic from off to on, with no
\* time supplied, the angles are the continuous angles of the wall clock
\* at that moment.
C7_ResyncOnRestart ==
  (mounted /\ dynamic /\ time = NoTime /\ lastOp \in {"mount", "restart"})
    => degRotations = ContinuousDeg(MkDate(0, now))

\* C8: a visibilitychange that finds the document shown, the Clock mounted
\* without a time and dynamic on, makes the date a new Date of the wall
\* clock, sets the angles to its continuous angles and leaves no tick
\* counted since; one that finds the document hidden changes neither the
\* date nor the angles.
C8_ResampleOnVisible ==
  [][/\ (lastOp' = "visible" /\ mounted /\ time = NoTime /\ dynamic)
          => /\ date' # date
             /\ date'.t = now
             /\ degRotations' = ContinuousDeg(MkDate(0, now))
             /\ sinceSync' = 0
             /\ syncTime' = date'
             /\ Cardinality(intervals') = 1
     /\ lastOp' = "hidden"
          => /\ date' = date
             /\ degRotations' = degRotations]_vars

C8_Witness ==
  /\ lastOp = "visible"
  /\ mounted
  /\ dynamic
  /\ time = NoTime
  /\ dropped
  /\ elapsed >= 1
  /\ date.t = now
  /\ degRotations = ContinuousDeg(MkDate(0, now))
  /\ degRotations # ContinuousDeg(MkDate(0, now - 1))

\* The angles of the claim for a Date snapped to whole units, in 1/120 degree.
DiscreteDeg(h, m, s) ==
  [hour |-> (h % 12) * 3600, minute |-> m * 720, second |-> s * 720]

\* C9: while the component is mounted with dynamic off, the angles are the
\* whole-unit angles of the Date given to the interface; 05:00:00 gives an
\* hour angle of 150 degrees and a minute angle of 0.
C9_DiscreteAngles ==
  (mounted /\ ~dynamic)
    => /\ degRotations = DiscreteDeg(date.t \div 3600, (date.t \div 60) % 60,
                                     date.t % 60)
       /\ date.t = 18000 => (degRotations.hour = 150 * 120 /\ degRotations.minute = 0)

\* The angles of the claim for hours h, minutes m and seconds s, in 1/120
\* degree.
ClaimDeg(h, m, s) ==
  [hour |-> (h % 12) * 3600 + m * 60,
   minute |-> m * 720 + s * 12,
   second |-> s * 720]

\* C10: while the component is mounted with dynamic on and no tick has run
\* since the last synchronisation, the angles are the ones of the formula
\* for the Date synchronised from; 03:15:30 gives 97.5, 93 and 180 degrees.
C10_ContinuousAngles ==
  (mounted /\ dynamic /\ sinceSync = 0)
    => /\ \E h \in 0..23, m \in 0..59 :
            \E s \in {syncTime.t - h * 3600 - m * 60} \cap (0..59) :
              degRotations = ClaimDeg(h, m, s)
       /\ syncTime.t = 11730
            => degRotations = [hour |-> 11700, minute |-> 11160, second |-> 21600]

C10_Witness ==
  /\ mounted
  /\ dynamic
  /\ sinceSync = 0
  /\ syncTime.t = 11730
  /\ degRotations = [hour |-> 11700, minute |-> 11160, second |-> 21600]

\* 360 degrees, in 1/120 degree.
FullTurn == 360 * Scale

\* C13: while the tick loop runs, n ticks after a synchronisation from the
\* time t each of the three angles is congruent modulo 360 degrees to the
\* continuous angle of that hand at t + n seconds.
C13_TicksFollowFormula ==
  (mounted /\ dynamic)
    => \E at \in {ContinuousDeg(MkDate(0, (syncTime.t + sinceSync) % 86400))} :
         /\ degRotations.hour % FullTurn = at.hour % FullTurn
         /\ degRotations.minute % FullTurn = at.minute % FullTurn
         /\ degRotations.second % FullTurn = at.second % FullTurn

\* C14: every tick of a running clock makes each of the three angles
\* strictly greater than it was, also when the angle passes 360 degrees.
C14_TicksIncrease ==
  [][ticks' # ticks
       => /\ degRotations'.hour > degRotations.hour
          /\ degRotations'.minute > degRotations.minute
          /\ degRotations'.second > degRotations.second]_vars

C14_Witness ==
  /\ lastOp = "tick"
  /\ mounted
  /\ dynamic
  /\ sinceSync >= 1
  /\ degRotations.second >= FullTurn
  /\ degRotations.second - 6 * Scale < FullTurn

\* C15: at most one visibilitychange listener is registered, it is the one
\* the last effect of Clock added, and none is while a time is supplied or
\* the Clock is unmounted; a visibility event of a Clock with a time
\* supplied changes neither its date nor its angles.
C15_OneListener ==
  /\ [](/\ Cardinality(listeners) <= 1
        /\ listeners # {} => listeners = {listenerCleanup}
        /\ (~mounted \/ time # NoTime) => listeners = {})
  /\ [][(hidden' # hidden /\ mounted /\ time # NoTime)
         => (date' = date /\ degRotations' = degRotations)]_vars

C15_Witness ==
  /\ lastOp = "visible"
  /\ mounted
  /\ time # NoTime
  /\ date = time
  /\ listeners = {}
  /\ elapsed >= 1
  /\ ticks >= 1

(***************************************************************************)
(* The claims about the hand.                                              *)
(***************************************************************************)
\* The offset of the claim, in 1/4 px.
ClaimOffset(a, fh, fbh, ps) ==
  CASE a = "PIVOT" -> 4 * (fh - fbh)
    [] a = "TICK" -> 0
    [] a = "CENTER" -> 2 * fh + ps - 2 * fbh

\* C11: the offset a hand holds is always frontHeight - frontBaseHeight for
\* PIVOT, 0 for TICK and (frontHeight + pivotSize/2 - frontBaseHeight)/2 for
\* CENTER (80, 120 and 20 give -40, 0 and -15 px), and a render that changes
\* the angle alone leaves it as it was.
C11_AlignmentOffset ==
  /\ [](/\ frontAlignmentTranslation
             = ClaimOffset(alignment, frontHeight, frontBaseHeight,
                           PivotSizeOf(pivot))
        /\ (frontHeight = 80 /\ frontBaseHeight = 120 /\ PivotSizeOf(pivot) = 20)
             => frontAlignmentTranslation
                  = CASE alignment = "PIVOT" -> -160
                      [] alignment = "TICK" -> 0
                      [] alignment = "CENTER" -> -60)
  /\ [][(degrees' # degrees /\ HandDeps' = HandDeps)
         => frontAlignmentTranslation' = frontAlignmentTranslation]_vars

C11_Witness ==
  /\ handTicks >= 1
  /\ degrees # ZeroDeg
  /\ alignment = "CENTER"
  /\ frontHeight = 80
  /\ frontBaseHeight = 120
  /\ PivotSizeOf(pivot) = 20
  /\ frontAlignmentTranslation = -60

====
